---- MODULE Spec2Model ----
(***************************************************************************)
(* etlcmd: the configuration decoder (config.go) and the command line      *)
(* driver (main.go).                                                       *)
(*                                                                         *)
(* config.go holds two revisions of the decoder: lines 1-443 (FieldInfo,   *)
(* MongoDBInfo, optional input/output) and lines 445-789 (required         *)
(* input/output, no mongodb).  The variable rev names the revision a       *)
(* behaviour runs: 1 for the older one, 2 for the current one.             *)
(*                                                                         *)
(* A configuration file is the tree hcl.Parse produces: a list of          *)
(* ast.ObjectItem, each with its Keys (the keyword, then the labels), the  *)
(* line it is written on (the Pos of its first key), the line of its '='   *)
(* token (Assign.Line, 0 for a block written without '=') and its Val (an  *)
(* ast.ObjectType holding a nested list, or a literal).                    *)
(***************************************************************************)
EXTENDS Integers, Sequences, FiniteSets, TLC

VARIABLES rev, file, writes, pc, config, err, idx, started

vars == <<rev, file, writes, pc, config, err, idx, started>>

(***************************************************************************)
(* Bounds of the model.                                                    *)
(***************************************************************************)
\* the number of writes (of an item, or of a process block with its input
\* and output) that make a configuration file
MaxWrites == 4

\* the number of writes that make a file of processes with configured blocks
MaxRunWrites == 4

\* the number of writes that make the field blocks of an input
MaxFieldWrites == 4

(***************************************************************************)
(* Values.                                                                 *)
(***************************************************************************)
\* a nil pointer, a nil error
Nil == [nil |-> TRUE]

\* a Go string that the decoder lower-cases: its bytes
CSV == <<67, 83, 86>>
csv == <<99, 115, 118>>
json == <<106, 115, 111, 110>>
jsonl == <<106, 115, 111, 110, 108>>
JS == <<74, 83>>
js == <<106, 115>>
Json == <<74, 115, 111, 110>>
unidata == <<117, 110, 105, 100, 97, 116, 97>>
mongodb == <<109, 111, 110, 103, 111, 100, 98>>

\* a decoder that keeps the case of a label
ToLowerKept(s) == s

\* strings.ToLower on the bytes of an ASCII string
ToLower(s) ==
    [i \in 1..Len(s) |-> IF s[i] >= 65 /\ s[i] <= 90 THEN s[i] + 32 ELSE s[i]]

\* ast.ObjectType, ast.LiteralType: the Val of an item
ObjectType(list) == [type |-> "ObjectType", list |-> list]

LiteralType(t, v) == [type |-> "LiteralType", t |-> t, v |-> v]

\* ast.ObjectItem
ObjectItem(keys, line, assign, val) ==
    [keys |-> keys, line |-> line, assign |-> assign, val |-> val]

\* the root node of a file: an ast.ObjectList
ObjectList(items) == [type |-> "ObjectList", list |-> items]

\* ast.ObjectList.Filter: the items whose first key is key, that key stripped
Filter(items, key) ==
    LET hit == SelectSeq(items, LAMBDA it : Len(it.keys) >= 1 /\ it.keys[1] = key)
    IN  [i \in 1..Len(hit) |-> [hit[i] EXCEPT !.keys = Tail(@)]]

\* ast.ObjectList.Children: the items that still have a key (a label)
Children(items) == SelectSeq(items, LAMBDA it : Len(it.keys) > 0)

\* hcl.DecodeObject into a map[string]interface{}: one entry per key of the
\* object, a literal by its type and value, a nested block as an object
DecodeObject(val) ==
    LET items == val.list
        keys == {items[i].keys[1] : i \in 1..Len(items)}
        at(k) == items[CHOOSE i \in 1..Len(items) : items[i].keys[1] = k].val
    IN  [k \in keys |->
            IF at(k).type = "LiteralType"
            THEN [t |-> at(k).t, v |-> at(k).v]
            ELSE [t |-> "object", v |-> ""]]

(***************************************************************************)
(* Errors.  An error value is a sequence of messages (a multierror keeps   *)
(* one per failure; fmt.Errorf("...: %s", err) keeps the text of all of    *)
(* them behind one prefix); the nil error is the empty sequence.           *)
(***************************************************************************)
Errorf(msg, arg, line) == <<[msg |-> msg, arg |-> arg, line |-> line, prefix |-> <<>>]>>

\* multierror.Prefix, and fmt.Errorf(prefix + ": %s", err); a prefix such as
\* "process 'a':" is two entries, the word and the name
Prefix(errs, p) ==
    [i \in 1..Len(errs) |-> [errs[i] EXCEPT !.prefix = <<p>> \o @]]

\* what a parse function hands back: the struct it filled, and its error
Ret(result, errs) == [result |-> result, err |-> errs]

\* v := ...; F(v): the value is computed once and handed on
Bind(v, F(_)) == CHOOSE y \in {F(x) : x \in {v}} : TRUE

\* if err != nil { return err }: the next step runs on the result of a step
\* that returned no error
Then(r, F(_)) == Bind(r, LAMBDA x : IF x.err # <<>> THEN x ELSE F(x.result))

\* a run-time panic (a failed type assertion, an index out of range) unwinds
\* every caller: it is carried as an error no caller rewrites
Panic(what) == <<[msg |-> "panic", arg |-> what, line |-> 0, prefix |-> <<>>]>>

IsPanic(errs) == errs # <<>> /\ errs[1].msg = "panic"

Wrap(errs, p) == IF IsPanic(errs) THEN errs ELSE Prefix(errs, p)

(***************************************************************************)
(* The key validator.                                                      *)
(***************************************************************************)
\* a validator that stops at the first offending item
checkHCLKeysFirst(node, valid) ==
    LET bad == SelectSeq(node.list, LAMBDA it : it.keys[1] \notin valid)
    IN  IF bad = <<>> THEN <<>>
        ELSE <<[msg |-> "invalid key", arg |-> bad[1].keys[1],
                line |-> bad[1].assign, prefix |-> <<>>]>>

\* checkHCLKeys: nil when every key of the node is in valid, else one
\* "invalid key" error per offending item, in the order of the items
checkHCLKeys(node, valid) ==
    IF node.type \notin {"ObjectList", "ObjectType"}
    THEN Errorf("cannot check HCL keys of type", node.type, 0)
    ELSE LET bad == SelectSeq(node.list, LAMBDA it : it.keys[1] \notin valid)
         IN  [i \in 1..Len(bad) |->
                 [msg |-> "invalid key", arg |-> bad[i].keys[1],
                  line |-> bad[i].assign, prefix |-> <<>>]]

(***************************************************************************)
(* mapstructure.WeakDecode into a struct of string fields: a field takes   *)
(* the map entry whose key matches its name without regard to case; a      *)
(* string, number or boolean converts, a list or an object does not.       *)
(***************************************************************************)
\* the map key that matches a struct field (strings.EqualFold on its name)
FieldKey(f) ==
    CASE f = "Host" -> "host"
      [] f = "Username" -> "username"
      [] f = "Password" -> "password"
      [] f = "UdtBin" -> "udtbin"
      [] f = "UdtHome" -> "udthome"
      [] f = "UdtAcct" -> "udtacct"
      [] f = "Server" -> "server"
      [] f = "Database" -> "database"
      [] f = "Name" -> "name"
      [] f = "Type" -> "type"
      [] f = "IsMulti" -> "ismulti"

WeakString(x) == x.t \in {"string", "int", "bool"}

WeakDecode(m, fields) ==
    LET order == <<"Host", "Username", "Password", "UdtBin", "UdtHome", "UdtAcct",
                   "Server", "Database", "Name", "Type", "IsMulti">>
        bad == SelectSeq(order, LAMBDA f : /\ f \in fields
                                           /\ FieldKey(f) \in DOMAIN m
                                           /\ ~WeakString(m[FieldKey(f)]))
        errs == [i \in 1..Len(bad) |->
                    [msg |-> "expected type 'string', got unconvertible type",
                     arg |-> bad[i], line |-> 0, prefix |-> <<>>]]
        val == [f \in fields |->
                   IF FieldKey(f) \in DOMAIN m /\ WeakString(m[FieldKey(f)])
                   THEN m[FieldKey(f)].v ELSE ""]
    IN  Ret(val, errs)

(***************************************************************************)
(* The connection blocks.                                                  *)
(***************************************************************************)
\* the fields of UnidataInfo (rev 1) and unidataInfo (rev 2)
UnidataFields(rv) ==
    IF rv = 1 THEN {"Host", "Username", "Password", "UdtBin"}
    ELSE {"Host", "Username", "Password", "UdtBin", "UdtHome", "UdtAcct"}

\* the keys parseUnidata permits
UnidataKeys(rv) ==
    IF rv = 1 THEN {"host", "username", "password", "udt_bin"}
    ELSE {"host", "username", "password", "udtbin", "udthome", "udtacct"}

\* parseUnidata: one block at most; its keys checked; decoded into result.Unidata
parseUnidata(rv, result, list) ==
    IF Len(list) > 1
    THEN Ret(result, Errorf("only one 'unidata' block allowed", "", 0))
    ELSE Bind(checkHCLKeys(list[1].val, UnidataKeys(rv)), LAMBDA keyErrs :
         IF keyErrs # <<>> THEN Ret(result, Prefix(keyErrs, "unidata:"))
         ELSE Bind(WeakDecode(DecodeObject(list[1].val), UnidataFields(rv)), LAMBDA d :
              Ret([result EXCEPT !.Unidata = d.result], d.err)))

\* a decoder that takes the first mongodb block of several
parseMongoDBFirst(result, list) ==
    Bind(checkHCLKeys(list[1].val, {"server", "database"}), LAMBDA keyErrs :
    IF keyErrs # <<>> THEN Ret(result, Prefix(keyErrs, "mongodb:"))
    ELSE Bind(WeakDecode(DecodeObject(list[1].val), {"Server", "Database"}),
              LAMBDA d : Ret([result EXCEPT !.MongoDB = d.result], d.err)))

\* parseMongoDB (rev 1): one block at most; decoded into result.MongoDB
parseMongoDB(result, list) ==
    IF Len(list) > 1
    THEN Ret(result, Errorf("only one 'mongodb' block allowed", "", 0))
    ELSE Bind(checkHCLKeys(list[1].val, {"server", "database"}), LAMBDA keyErrs :
         IF keyErrs # <<>> THEN Ret(result, Prefix(keyErrs, "mongodb:"))
         ELSE Bind(WeakDecode(DecodeObject(list[1].val), {"Server", "Database"}),
                   LAMBDA d : Ret([result EXCEPT !.MongoDB = d.result], d.err)))

(***************************************************************************)
(* The blocks of a process.                                                *)
(***************************************************************************)
\* parseFields (rev 1), one item: by the time the loop reaches it, seen holds
\* the names before it.  WeakDecode fills Type alone (no key matches Name or
\* IsMulti); the two type assertions panic on a value of another type.
parseField(item, seen) ==
    IF Len(item.keys) = 0 THEN Ret(Nil, Panic("index out of range"))
    ELSE IF item.keys[1] \in seen
    THEN Ret(Nil, Errorf("field defined more than once", item.keys[1], 0))
    ELSE Bind(checkHCLKeys(item.val, {"type", "is_multi"}), LAMBDA keyErrs :
         IF keyErrs # <<>> THEN Ret(Nil, Prefix(Prefix(keyErrs, item.keys[1]), "field"))
         ELSE Bind(DecodeObject(item.val), LAMBDA m :
              Bind(WeakDecode(m, {"Name", "Type", "IsMulti"}), LAMBDA d :
              IF d.err # <<>>
              THEN Ret(Nil, Prefix(Prefix(d.err, item.keys[1]), "error parsing field"))
              ELSE IF "type" \notin DOMAIN m
              THEN Ret(Nil, Errorf("you must specify a type for field", item.keys[1], 0))
              ELSE IF m["type"].t # "string" THEN Ret(Nil, Panic("type.(string)"))
              ELSE IF "is_multi" \in DOMAIN m /\ m["is_multi"].t # "bool"
              THEN Ret(Nil, Panic("is_multi.(bool)"))
              ELSE Ret([Name |-> item.keys[1], Type |-> m["type"].v,
                        IsMulti |-> IF "is_multi" \in DOMAIN m
                                    THEN m["is_multi"].v = "true" ELSE FALSE],
                       <<>>))))

RECURSIVE fieldsLoop(_, _, _, _)
fieldsLoop(items, i, collection, seen) ==
    IF i > Len(items) THEN Ret(collection, <<>>)
    ELSE Bind(parseField(items[i], seen), LAMBDA f :
         IF f.err # <<>> THEN Ret(collection, f.err)
         ELSE fieldsLoop(items, i + 1, Append(collection, f.result),
                         seen \cup {items[i].keys[1]}))

\* parseFields (rev 1): the fields in order, or the first error met
parseFields(result, list) ==
    Bind(fieldsLoop(list, 1, <<>>, {}), LAMBDA r :
    IF r.err # <<>> THEN Ret(result, r.err)
    ELSE Ret([result EXCEPT !.Fields = r.result], <<>>))

\* the InputInfo of a block labelled key, before its fields are parsed
NewInput(rv, key, val) ==
    IF rv = 1
    THEN [Type |-> ToLower(key), Config |-> DecodeObject(val), Fields |-> <<>>]
    ELSE [Type |-> ToLower(key), Config |-> DecodeObject(val)]

\* parseInputs: the first labelled input block decides; with none, the
\* process is left as it is and no error is returned
parseInputs(rv, result, list0) ==
    Bind(Children(list0), LAMBDA list :
    IF Len(list) = 0 THEN Ret(result, <<>>)
    ELSE IF rv = 1 /\ list[1].val.type # "ObjectType"
    THEN Ret(result, Errorf("should be an object", list[1].keys[1], 0))
    ELSE Bind(NewInput(rv, list[1].keys[1], list[1].val), LAMBDA input :
         Bind(Filter(list[1].val.list, "field"), LAMBDA o :
         IF rv = 1 /\ Len(o) > 0
         THEN Bind(parseFields(input, o), LAMBDA f :
              IF f.err # <<>> THEN Ret(result, Wrap(f.err, "error parsing 'field'"))
              ELSE Ret([result EXCEPT !.Input = f.result], <<>>))
         ELSE Ret([result EXCEPT !.Input = input], <<>>))))

RECURSIVE transformsLoop(_, _, _)
transformsLoop(items, i, collection) ==
    IF i > Len(items) THEN Ret(collection, <<>>)
    ELSE IF Len(items[i].keys) = 0
    THEN Ret(collection, Errorf("you may only specify a type for transforms", "", 0))
    ELSE transformsLoop(items, i + 1,
             Append(collection, [Type |-> ToLower(items[i].keys[1]),
                                 Config |-> DecodeObject(items[i].val)]))

\* parseTransforms: one TransformInfo per transform block, in order
parseTransforms(result, list) ==
    Bind(transformsLoop(list, 1, <<>>), LAMBDA r :
    IF r.err # <<>> THEN Ret(result, r.err)
    ELSE Ret([result EXCEPT !.Transforms = r.result], <<>>))

\* a decoder that checks the keys of an output block
parseOutputsChecked(result, list0) ==
    Bind(Children(list0), LAMBDA list :
    IF Len(list) # 1
    THEN Ret(result, Errorf("you may only specify one 'output'", "", 0))
    ELSE Bind(checkHCLKeys(list[1].val, {"path"}), LAMBDA keyErrs :
         IF keyErrs # <<>> THEN Ret(result, Prefix(keyErrs, "output:"))
         ELSE Ret([result EXCEPT !.Output = [Type |-> ToLower(list[1].keys[1]),
                                             Config |-> DecodeObject(list[1].val)]],
                  <<>>)))

\* parseOutputs: exactly one labelled output block
parseOutputs(result, list0) ==
    Bind(Children(list0), LAMBDA list :
    IF Len(list) # 1
    THEN Ret(result, Errorf("you may only specify one 'output'", "", 0))
    ELSE Ret([result EXCEPT !.Output = [Type |-> ToLower(list[1].keys[1]),
                                        Config |-> DecodeObject(list[1].val)]],
             <<>>))

(***************************************************************************)
(* The processes.                                                          *)
(***************************************************************************)
\* var process processInfo; process.Name = n
NewProcess(n) == [Name |-> n, Input |-> Nil, Transforms |-> <<>>, Output |-> Nil]

\* a process loop that takes a process without output as it is
parseProcessOutputOptional(rv, process, listVal) ==
    Bind(Filter(listVal, "output"), LAMBDA o :
    IF Len(o) = 0 THEN Ret(process, <<>>)
    ELSE Bind(parseOutputs(process, o), LAMBDA r :
         Ret(r.result, Wrap(r.err, "error parsing 'output'"))))

\* parseProcesses, "Parse outputs" of one item
parseProcessOutput(rv, process, listVal) ==
    Bind(Filter(listVal, "output"), LAMBDA o :
    IF Len(o) = 0
    THEN IF rv = 2
         THEN Ret(process, Errorf("you must specify an 'output' block for process",
                                  process.Name, 0))
         ELSE Ret(process, <<>>)
    ELSE Bind(parseOutputs(process, o), LAMBDA r :
         Ret(r.result, Wrap(r.err, "error parsing 'output'"))))

\* parseProcesses, "Parse transforms" of one item
parseProcessTransforms(process, listVal) ==
    Bind(Filter(listVal, "transform"), LAMBDA o :
    IF Len(o) = 0 THEN Ret(process, <<>>)
    ELSE Bind(parseTransforms(process, o), LAMBDA r :
         Ret(r.result, Wrap(r.err, "error parsing 'transform'"))))

\* parseProcesses, "Parse input" of one item
parseProcessInput(rv, process, listVal) ==
    Bind(Filter(listVal, "input"), LAMBDA o :
    IF Len(o) = 0
    THEN IF rv = 2
         THEN Ret(process, Errorf("you must specify an 'input' block for process",
                                  process.Name, 0))
         ELSE Ret(process, <<>>)
    ELSE Bind(parseInputs(rv, process, o), LAMBDA r :
         Ret(r.result, Wrap(r.err, "error parsing 'input'"))))

\* the body of the loop of parseProcesses for one item, the duplicate check
\* apart: the ProcessInfo of the block, or the first error met
parseProcess(rv, item) ==
    Bind(checkHCLKeys(item.val, {"input", "output", "transform"}), LAMBDA keyErrs :
    IF keyErrs # <<>>
    THEN Ret(NewProcess(item.keys[1]), Prefix(Prefix(keyErrs, item.keys[1]), "process"))
    ELSE IF item.val.type # "ObjectType"
    THEN Ret(NewProcess(item.keys[1]),
             Errorf("process should be an object", item.keys[1], 0))
    ELSE Then(parseProcessInput(rv, NewProcess(item.keys[1]), item.val.list),
              LAMBDA p1 :
         Then(parseProcessTransforms(p1, item.val.list), LAMBDA p2 :
         parseProcessOutput(rv, p2, item.val.list))))

\* a process loop that never finds a name in seen
AlreadySeenNever(n, seen) == FALSE

\* if _, ok := seen[n]; ok
AlreadySeen(n, seen) == n \in seen

RECURSIVE processesLoop(_, _, _, _, _)
processesLoop(rv, items, i, collection, seen) ==
    IF i > Len(items) THEN Ret(collection, <<>>)
    ELSE IF AlreadySeen(items[i].keys[1], seen)
    THEN Ret(collection, Errorf("process defined more than once", items[i].keys[1], 0))
    ELSE Bind(parseProcess(rv, items[i]), LAMBDA p :
         IF p.err # <<>> THEN Ret(collection, p.err)
         ELSE processesLoop(rv, items, i + 1, Append(collection, p.result),
                            seen \cup {items[i].keys[1]}))

\* parseProcesses: the labelled process blocks in order; the first error met
\* ends the loop and leaves result.Processes unset
parseProcesses(rv, result, list0) ==
    Bind(Children(list0), LAMBDA list :
    IF Len(list) = 0 THEN Ret(result, <<>>)
    ELSE Bind(processesLoop(rv, list, 1, <<>>, {}), LAMBDA r :
         IF r.err # <<>> THEN Ret(result, r.err)
         ELSE Ret([result EXCEPT !.Processes = r.result], <<>>)))

(***************************************************************************)
(* The entry points.                                                       *)
(***************************************************************************)
\* the keys Parse permits at the root
RootKeys(rv) == IF rv = 1 THEN {"process", "unidata", "mongodb"} ELSE {"process", "unidata"}

\* var result Config
ZeroConfig(rv) ==
    IF rv = 1 THEN [Processes |-> <<>>, Unidata |-> Nil, MongoDB |-> Nil]
    ELSE [Processes |-> <<>>, Unidata |-> Nil]

\* a decoder that returns a Config with its error
LoadedWithModel(c, errs) ==
    [config |-> IF c = Nil THEN [Processes |-> <<>>, Unidata |-> Nil] ELSE c,
     err |-> errs]

\* what Parse and LoadConfig return: (config, nil) or (nil, err)
Loaded(c, errs) == [config |-> c, err |-> errs]

\* Parse, one stage: the blocks under key, if the file has any, go to parse
ParseStage(list, key, prefix, result, parse(_, _)) ==
    Bind(Filter(list, key), LAMBDA o :
    IF Len(o) = 0 THEN Ret(result, <<>>)
    ELSE Bind(parse(result, o), LAMBDA r : Ret(r.result, Wrap(r.err, prefix))))

\* Parse: f is what hcl.Parse made of the text (a syntax error, or the root
\* list).  Root keys, then processes, then unidata, then (rev 1) mongodb;
\* the first stage that fails ends the decode with (nil, err).
Parse(rv, f) ==
    IF f.status = "syntax error" THEN Loaded(Nil, Errorf("error parsing", "", 0))
    ELSE Bind(checkHCLKeys(ObjectList(f.root), RootKeys(rv)), LAMBDA keyErrs :
         IF keyErrs # <<>> THEN Loaded(Nil, keyErrs)
         ELSE Bind(Then(ParseStage(f.root, "process", "error parsing 'process'",
                                   ZeroConfig(rv),
                                   LAMBDA res, o : parseProcesses(rv, res, o)),
                        LAMBDA r1 :
                   Then(ParseStage(f.root, "unidata", "error parsing 'unidata'", r1,
                                   LAMBDA res, o : parseUnidata(rv, res, o)),
                        LAMBDA r2 :
                   IF rv = 1
                   THEN ParseStage(f.root, "mongodb", "error parsing 'mongodb'", r2,
                                   parseMongoDB)
                   ELSE Ret(r2, <<>>))),
              LAMBDA r :
              IF r.err # <<>> THEN Loaded(Nil, r.err) ELSE Loaded(r.result, <<>>)))

\* LoadConfig: open the file, parse it
LoadConfig(rv, f) ==
    IF f.status = "unreadable"
    THEN Loaded(Nil, Errorf("opening configuration file", "", 0))
    ELSE Bind(Parse(rv, f), LAMBDA p :
         IF p.err # <<>> THEN Loaded(Nil, Wrap(p.err, "parsing configuration file"))
         ELSE Loaded(p.config, <<>>))

(***************************************************************************)
(* The configuration file, written item by item before the program runs.   *)
(***************************************************************************)
ProcessNames == {"a", "b"}

InputLabels == {CSV, json}

TransformLabels == {JS, Json}

OutputLabels == {Json}

\* a block opened with '{': hcl's parser leaves its Assign position zero
Block(keys, line, list) == ObjectItem(keys, line, 0, ObjectType(list))

\* an attribute key = value, written on the given line
Attribute(key, line, t, v) == ObjectItem(<<key>>, line, line, LiteralType(t, v))

\* the process names the file uses so far
NamesUsed(root) ==
    {root[i].keys[2] : i \in {j \in 1..Len(root) :
                                  root[j].keys[1] = "process" /\ Len(root[j].keys) > 1}}

\* names are taken in order: "b" only in a file that uses "a"
NamesFree(root) == IF "a" \in NamesUsed(root) THEN ProcessNames ELSE {"a"}

\* the bodies a process block is written with: none, or an input and an
\* output on the line of the block
ProcessBodies(line) ==
    {<<>>, <<Block(<<"input", CSV>>, line, <<>>), Block(<<"output", Json>>, line, <<>>)>>}

\* the items a file may hold at its root
RootItems(root, line) ==
    {Block(<<"process", n>>, line, b) : n \in NamesFree(root), b \in ProcessBodies(line)}
        \cup {Block(<<"process">>, line, <<>>), Block(<<"unidata">>, line, <<>>),
              Block(<<"mongodb">>, line, <<>>), Attribute("bogus", line, "string", "x")}

\* the items a process block may hold
BodyItems(line) ==
    {Block(<<"input", l>>, line, <<>>) : l \in InputLabels}
        \cup {Block(<<"transform", l>>, line, <<>>) : l \in TransformLabels}
        \cup {Block(<<"output", l>>, line, <<>>) : l \in OutputLabels}
        \cup {Block(<<"input">>, line, <<>>), Block(<<"transform">>, line, <<>>),
              Block(<<"output">>, line, <<>>), Attribute("bogus", line, "string", "x")}

\* the attributes a connection block may hold
ConnectionAttributes(line) ==
    {Attribute("host", line, "string", "h"), Attribute("host", line, "list", "[h]"),
     Attribute("udtbin", line, "string", "/bin"),
     Attribute("server", line, "string", "s"),
     Attribute("bogus", line, "string", "x")}

Last(seq) == seq[Len(seq)]

\* append an item to the list of the last item of the root
AppendInLast(root, item) ==
    [root EXCEPT ![Len(root)].val.list = Append(@, item)]

WriteRootItem ==
    /\ pc = "edit"
    /\ writes < MaxWrites
    /\ \E item \in RootItems(file.root, writes + 1) :
           file' = [file EXCEPT !.root = Append(@, item)]
    /\ writes' = writes + 1
    /\ UNCHANGED <<rev, pc, config, err, idx, started>>

WriteBodyItem ==
    /\ pc = "edit"
    /\ writes < MaxWrites
    /\ file.root # <<>>
    /\ Last(file.root).keys[1] = "process"
    /\ \E item \in BodyItems(writes + 1) :
           file' = [file EXCEPT !.root = AppendInLast(@, item)]
    /\ writes' = writes + 1
    /\ UNCHANGED <<rev, pc, config, err, idx, started>>

WriteAttribute ==
    /\ pc = "edit"
    /\ writes < MaxWrites
    /\ file.root # <<>>
    /\ Last(file.root).keys[1] \in {"unidata", "mongodb"}
    /\ \E item \in ConnectionAttributes(writes + 1) :
           /\ \A i \in 1..Len(Last(file.root).val.list) :
                  Last(file.root).val.list[i].keys[1] # item.keys[1]
           /\ file' = [file EXCEPT !.root = AppendInLast(@, item)]
    /\ writes' = writes + 1
    /\ UNCHANGED <<rev, pc, config, err, idx, started>>

(***************************************************************************)
(* A file of valid processes whose input, transform and output blocks are  *)
(* configured attribute by attribute.                                      *)
(***************************************************************************)
\* the names of the processes, in the order they are written
RunNames == <<"a", "b", "c">>

\* the bodies a process is written with
RunBodies(line) ==
    {<<Block(<<"input", CSV>>, line, <<>>), Block(<<"output", Json>>, line, <<>>)>>,
     <<Block(<<"input", CSV>>, line, <<>>), Block(<<"transform", JS>>, line, <<>>),
       Block(<<"output", Json>>, line, <<>>)>>,
     <<Block(<<"input", unidata>>, line, <<>>), Block(<<"output", Json>>, line, <<>>)>>}

\* the attributes a block of a process may hold
BlockAttributes(line) ==
    {Attribute("path", line, "string", "f"), Attribute("path", line, "int", "5"),
     Attribute("script", line, "string", "s"), Attribute("bogus", line, "string", "x")}

\* attributes are written top down: blocks in order, keys in this order
KeyRank(key) == CASE key = "path" -> 1 [] key = "script" -> 2 [] key = "bogus" -> 3

\* the block of a body that the next attribute may go to: none after it holds
\* an attribute, and it holds no key of this rank or a later one
Writable(body, p, item) ==
    /\ \A q \in (p + 1)..Len(body) : body[q].val.list = <<>>
    /\ \A i \in 1..Len(body[p].val.list) :
           KeyRank(body[p].val.list[i].keys[1]) < KeyRank(item.keys[1])

WriteProcess ==
    /\ pc = "edit"
    /\ writes < MaxRunWrites
    /\ Len(file.root) < Len(RunNames)
    /\ \E body \in RunBodies(writes + 1) :
           file' = [file EXCEPT !.root =
                       Append(@, Block(<<"process", RunNames[Len(file.root) + 1]>>,
                                       writes + 1, body))]
    /\ writes' = writes + 1
    /\ UNCHANGED <<rev, pc, config, err, idx, started>>

WriteBlockAttribute ==
    /\ pc = "edit"
    /\ writes < MaxRunWrites
    /\ file.root # <<>>
    /\ \E p \in 1..Len(Last(file.root).val.list), item \in BlockAttributes(writes + 1) :
           /\ Writable(Last(file.root).val.list, p, item)
           /\ file' = [file EXCEPT !.root[Len(file.root)].val.list[p].val.list =
                                       Append(@, item)]
    /\ writes' = writes + 1
    /\ UNCHANGED <<rev, pc, config, err, idx, started>>

(***************************************************************************)
(* A file of one process whose input block is written field by field (the  *)
(* older revision).                                                        *)
(***************************************************************************)
FieldNames == {"f", "g"}

\* the file before its fields are written
OneProcess ==
    <<Block(<<"process", "a">>, 0,
            <<Block(<<"input", CSV>>, 0, <<>>), Block(<<"output", Json>>, 0, <<>>)>>)>>

\* the field blocks written so far
FieldsWritten(root) == root[1].val.list[1].val.list

\* names are taken in order: "g" only in an input that has an "f"
FieldNamesFree(root) ==
    IF \E i \in 1..Len(FieldsWritten(root)) : FieldsWritten(root)[i].keys[2] = "f"
    THEN FieldNames ELSE {"f"}

\* the attributes a field block may hold
FieldAttributes(line) ==
    {Attribute("type", line, "string", "string"), Attribute("type", line, "string", ""),
     Attribute("type", line, "int", "5"),
     Attribute("is_multi", line, "bool", "true"),
     Attribute("is_multi", line, "bool", "false"),
     Attribute("is_multi", line, "string", "true"),
     Attribute("is_multi", line, "string", "yes"),
     Attribute("bogus", line, "string", "x")}

WriteField ==
    /\ pc = "edit"
    /\ writes < MaxFieldWrites
    /\ \E n \in FieldNamesFree(file.root) :
           file' = [file EXCEPT !.root[1].val.list[1].val.list =
                       Append(@, Block(<<"field", n>>, writes + 1, <<>>))]
    /\ writes' = writes + 1
    /\ UNCHANGED <<rev, pc, config, err, idx, started>>

WriteFieldAttribute ==
    /\ pc = "edit"
    /\ writes < MaxFieldWrites
    /\ FieldsWritten(file.root) # <<>>
    /\ \E item \in FieldAttributes(writes + 1) :
           /\ \A i \in 1..Len(Last(FieldsWritten(file.root)).val.list) :
                  Last(FieldsWritten(file.root)).val.list[i].keys[1] # item.keys[1]
           /\ file' = [file EXCEPT
                  !.root[1].val.list[1].val.list[Len(FieldsWritten(file.root))].val.list =
                      Append(@, item)]
    /\ writes' = writes + 1
    /\ UNCHANGED <<rev, pc, config, err, idx, started>>

(***************************************************************************)
(* The command line driver.                                                *)
(***************************************************************************)
\* a driver that runs whatever the load returned
AfterLoadRun(l) == "run"

\* main, after LoadConfig: log.Fatalf on an error, else runApp
AfterLoad(l) ==
    IF IsPanic(l.err) THEN "panic" ELSE IF l.err # <<>> THEN "fatal" ELSE "run"

\* main: load the configuration; log.Fatalf on an error, else runApp
main ==
    /\ pc = "edit"
    /\ \E st \in {"ok", "unreadable", "syntax error"} :
           /\ st # "ok" => file.root = <<>>
           /\ file' = [file EXCEPT !.status = st]
           /\ LET l == LoadConfig(rev, file')
              IN  /\ config' = l.config
                  /\ err' = l.err
                  /\ pc' = AfterLoad(l)
    /\ idx' = 1
    /\ UNCHANGED <<rev, writes, started>>

\* inputFile, outputFile: the file named by the path attribute, else the
\* standard stream; opened tells whether the system call succeeds
openFile(cfg, opened) ==
    IF "path" \notin DOMAIN cfg THEN "ok"
    ELSE IF cfg["path"].t # "string" THEN "panic"
    ELSE IF opened THEN "ok" ELSE "fatal"

\* the first outcome of a sequence of steps that is not "ok"
FirstFailure(steps) ==
    IF \E i \in 1..Len(steps) : steps[i] # "ok"
    THEN steps[CHOOSE i \in 1..Len(steps) :
                   steps[i] # "ok" /\ \A j \in 1..(i - 1) : steps[j] = "ok"]
    ELSE "ok"

Check(cond) == IF cond THEN "ok" ELSE "fatal"

Deref(cond) == IF cond THEN "ok" ELSE "panic"

\* runApp, "Initialize Input": env tells whether the connectors succeed
initInput(rv, cfg, p, env) ==
    LET t == ToLower(p.Input.Type)
        c == p.Input.Config
        u == cfg.Unidata
        has(k) == k \in DOMAIN c
        is(k, ty) == k \in DOMAIN c /\ c[k].t = ty
        set(f) == f \in DOMAIN u /\ u[f] # ""
    IN  IF p.Input = Nil THEN "panic"
        ELSE IF t = csv THEN FirstFailure(<<openFile(c, env), Check(env)>>)
        ELSE IF t = json \/ (rv = 2 /\ t = jsonl) THEN openFile(c, env)
        ELSE IF t = unidata /\ rv = 2
        THEN FirstFailure(<<Deref(u # Nil), Check(set("UdtBin")), Check(set("UdtHome")),
                            Check(set("UdtAcct")),
                            Check(has("file")), Check(is("file", "string")),
                            Check(has("select") => is("select", "list")
                                                       \/ is("select", "string")),
                            Check(has("fields")), Check(is("fields", "list")),
                            Check(has("batch_size") => is("batch_size", "int")),
                            Check(env)>>)
        ELSE IF t = unidata
        THEN FirstFailure(<<Deref(u # Nil), Check(set("UdtBin")), Check(set("UdtHome")),
                            Check(has("query")), Check(is("query", "string")),
                            Check(env)>>)
        ELSE "fatal"

\* runApp, "Initialize Transformations", one transform
initTransform(tr, env) ==
    IF ToLower(tr.Type) = js
    THEN FirstFailure(<<Deref("script" \in DOMAIN tr.Config
                                  /\ tr.Config["script"].t = "string"),
                        Check(env)>>)
    ELSE "fatal"

\* runApp, "Initialize Output"
initOutput(rv, cfg, p, env) ==
    LET t == ToLower(p.Output.Type)
        c == p.Output.Config
    IN  IF p.Output = Nil THEN "panic"
        ELSE IF t = csv
        THEN FirstFailure(<<openFile(c, env),
                            Check("column_order" \in DOMAIN c
                                      => c["column_order"].t = "list")>>)
        ELSE IF t = json \/ (rv = 2 /\ t = jsonl) THEN openFile(c, env)
        ELSE IF rv = 1 /\ t = mongodb
        THEN FirstFailure(<<Deref(cfg.MongoDB # Nil),
                            Deref("collection" \in DOMAIN c
                                      /\ c["collection"].t = "string"),
                            Check(env)>>)
        ELSE "fatal"

\* runApp, one turn of the loop up to pipeline.Run: the processors of the
\* process are built, input first, then each transform, then the output
initProcess(rv, cfg, p, env) ==
    FirstFailure(<<initInput(rv, cfg, p, env)>>
                 \o [i \in 1..Len(p.Transforms) |-> initTransform(p.Transforms[i], env)]
                 \o <<initOutput(rv, cfg, p, env)>>)

\* a driver that goes on to the next process when one cannot be initialised
runAppSkip ==
    /\ pc = "run"
    /\ config # Nil
    /\ idx <= Len(config.Processes)
    /\ \E env \in BOOLEAN :
           IF initProcess(rev, config, config.Processes[idx], env) = "ok"
           THEN /\ pc' = "pipeline"
                /\ started' = Append(started, config.Processes[idx].Name)
                /\ UNCHANGED idx
           ELSE /\ pc' = "run"
                /\ idx' = idx + 1
                /\ UNCHANGED started
    /\ UNCHANGED <<rev, file, writes, config, err>>

\* runApp: the next process is initialised and its pipeline started, or the
\* program ends in log.Fatalf or in a panic
runApp ==
    /\ pc = "run"
    /\ config # Nil => idx <= Len(config.Processes)
    /\ \E env \in BOOLEAN :
           LET outcome == IF config = Nil THEN "panic"
                          ELSE initProcess(rev, config, config.Processes[idx], env)
           IN  IF outcome = "ok"
               THEN /\ pc' = "pipeline"
                    /\ started' = Append(started, config.Processes[idx].Name)
               ELSE /\ pc' = outcome
                    /\ UNCHANGED started
    /\ UNCHANGED <<rev, file, writes, config, err, idx>>

\* err = <-pipeline.Run(): log.Fatalf on an error, else the next process
pipelineRun ==
    /\ pc = "pipeline"
    /\ \E ok \in BOOLEAN :
           IF ok THEN pc' = "run" /\ idx' = idx + 1
           ELSE pc' = "fatal" /\ UNCHANGED idx
    /\ UNCHANGED <<rev, file, writes, config, err, started>>

\* runApp returns nil after the last process
runAppReturn ==
    /\ pc = "run"
    /\ config # Nil
    /\ idx > Len(config.Processes)
    /\ pc' = "done"
    /\ UNCHANGED <<rev, file, writes, config, err, idx, started>>

Init ==
    /\ rev = 2
    /\ file = [status |-> "ok", root |-> <<>>]
    /\ writes = 0
    /\ pc = "edit"
    /\ config = Nil
    /\ err = <<>>
    /\ idx = 0
    /\ started = <<>>

\* the older revision of the decoder
InitOld ==
    /\ rev = 1
    /\ file = [status |-> "ok", root |-> <<>>]
    /\ writes = 0
    /\ pc = "edit"
    /\ config = Nil
    /\ err = <<>>
    /\ idx = 0
    /\ started = <<>>

Next ==
    \/ WriteRootItem
    \/ WriteBodyItem
    \/ WriteAttribute
    \/ main
    \/ runApp
    \/ pipelineRun
    \/ runAppReturn

\* the current revision of the decoder (config.go from line 445 on)
Spec == Init /\ [][Next]_vars

\* the older revision (config.go up to line 443)
SpecOld == InitOld /\ [][Next]_vars

\* either revision
SpecRevs == (Init \/ InitOld) /\ [][Next]_vars

\* the current revision on files of valid processes with configured blocks
NextRun ==
    \/ WriteProcess
    \/ WriteBlockAttribute
    \/ main
    \/ runApp
    \/ pipelineRun
    \/ runAppReturn

SpecRun == Init /\ [][NextRun]_vars

\* the older revision on a file of one process with fields in its input
InitFields ==
    /\ rev = 1
    /\ file = [status |-> "ok", root |-> OneProcess]
    /\ writes = 0
    /\ pc = "edit"
    /\ config = Nil
    /\ err = <<>>
    /\ idx = 0
    /\ started = <<>>

NextFields ==
    \/ WriteField
    \/ WriteFieldAttribute
    \/ main
    \/ runApp
    \/ pipelineRun
    \/ runAppReturn

SpecFields == InitFields /\ [][NextFields]_vars

(***************************************************************************)
(* What the claims speak of, read off the file itself.                     *)
(***************************************************************************)
\* Parse has run on the tree of the file
Decoded == pc # "edit" /\ file.status = "ok"

ProcessKeys == {"input", "output", "transform"}

\* the positions of the items of a list written under a key, or outside a set
Under(items, key) == {i \in 1..Len(items) : items[i].keys[1] = key}

Unknown(items, valid) == {i \in 1..Len(items) : items[i].keys[1] \notin valid}

\* the k-th position of a set of positions
Kth(S, k) == CHOOSE i \in S : Cardinality({j \in S : j < i}) = k - 1

\* the items of a list under a key, in declaration order
ItemsUnder(items, key) == [k \in 1..Cardinality(Under(items, key)) |->
                              items[Kth(Under(items, key), k)]]

Labelled(item) == Len(item.keys) = 2

\* the labelled process blocks of the file, in declaration order
ProcessBlocks ==
    LET at == {i \in Under(file.root, "process") : Labelled(file.root[i])}
    IN  [k \in 1..Cardinality(at) |-> file.root[Kth(at, k)]]

RootKeysValid == Unknown(file.root, RootKeys(rev)) = {}

\* t is s in lower case
LowerCase(s, t) ==
    /\ Len(t) = Len(s)
    /\ \A i \in 1..Len(s) : t[i] = IF s[i] \in 65..90 THEN s[i] + 32 ELSE s[i]

\* a process block as the specification wants it: permitted keys, one
\* labelled input, one labelled output, labelled transforms
ValidProcess(b) ==
    /\ Unknown(b.val.list, ProcessKeys) = {}
    /\ Cardinality(Under(b.val.list, "input")) = 1
    /\ Cardinality(Under(b.val.list, "output")) = 1
    /\ \A i \in 1..Len(b.val.list) : Labelled(b.val.list[i])

\* the names of the first k labelled process blocks differ pairwise
DistinctNames(k) ==
    \A i, j \in 1..k : i # j => ProcessBlocks[i].keys[2] # ProcessBlocks[j].keys[2]

\* a connection block whose keys are permitted and whose values are strings
ValidConnection(b, keys) ==
    /\ Unknown(b.val.list, keys) = {}
    /\ \A i \in 1..Len(b.val.list) : b.val.list[i].val.t = "string"

ValidConfiguration ==
    /\ RootKeysValid
    /\ \A i \in Under(file.root, "process") : Labelled(file.root[i])
    /\ \A k \in 1..Len(ProcessBlocks) : ValidProcess(ProcessBlocks[k])
    /\ DistinctNames(Len(ProcessBlocks))
    /\ Cardinality(Under(file.root, "unidata")) <= 1
    /\ \A i \in Under(file.root, "unidata") :
           ValidConnection(file.root[i], UnidataKeys(rev))
    /\ Cardinality(Under(file.root, "mongodb")) <= 1
    /\ \A i \in Under(file.root, "mongodb") :
           ValidConnection(file.root[i], {"server", "database"})

\* the error list names an unknown key and its line
KeyReported(item) ==
    \E i \in 1..Len(err) :
        err[i].msg = "invalid key" /\ err[i].arg = item.keys[1]
            /\ err[i].line = item.assign

\* the error list holds a message about a name
Reported(msg, name) ==
    \E i \in 1..Len(err) : err[i].msg = msg /\ err[i].arg = name

MissingInput == "you must specify an 'input' block for process"

MissingOutput == "you must specify an 'output' block for process"

Duplicate == "process defined more than once"

(***************************************************************************)
(* C1.                                                                     *)
(***************************************************************************)
\* C1, as claimed: one decode reports every validation failure of the tree:
\* each unknown key of the root, of every process block and of every unidata
\* block is in the returned error.
C1_EveryFailureReported ==
    Decoded =>
        /\ \A i \in Unknown(file.root, RootKeys(rev)) : KeyReported(file.root[i])
        /\ \A k \in 1..Len(ProcessBlocks) :
               \A i \in Unknown(ProcessBlocks[k].val.list, ProcessKeys) :
                   KeyReported(ProcessBlocks[k].val.list[i])
        /\ \A u \in Under(file.root, "unidata") :
               \A i \in Unknown(file.root[u].val.list, UnidataKeys(rev)) :
                   KeyReported(file.root[u].val.list[i])

\* C1, amended: one decode reports the failures of one block only.  Every
\* error of the returned aggregate comes from the same block, and when the
\* root has unknown keys the aggregate is exactly those keys, each once, in
\* declaration order, with the line of its '=' sign: nothing of any process
\* or connection block is reported with them.
C1_FirstFailingBlockOnly ==
    (Decoded /\ err # <<>>) =>
        /\ \A i, j \in 1..Len(err) : err[i].prefix = err[j].prefix
        /\ ~RootKeysValid =>
               LET bad == Unknown(file.root, RootKeys(rev))
               IN  /\ Len(err) = Cardinality(bad)
                   /\ \A k \in 1..Len(err) :
                          /\ err[k].msg = "invalid key"
                          /\ err[k].arg = file.root[Kth(bad, k)].keys[1]
                          /\ err[k].line = file.root[Kth(bad, k)].assign
                          /\ err[k].prefix = <<"parsing configuration file">>

\* C1, the case: the root has two unknown keys and a process block of the
\* same file has an unknown key of its own; the decode has run.
C1_SeveralFailures ==
    /\ Decoded
    /\ Cardinality(Unknown(file.root, RootKeys(rev))) >= 2
    /\ \E k \in 1..Len(ProcessBlocks) :
           Unknown(ProcessBlocks[k].val.list, ProcessKeys) # {}
    /\ pc = "fatal"

(***************************************************************************)
(* C2.                                                                     *)
(***************************************************************************)
\* the ProcessInfo p is what the block b declares
Decodes(p, b) ==
    LET ins == ItemsUnder(b.val.list, "input")
        outs == ItemsUnder(b.val.list, "output")
        trs == ItemsUnder(b.val.list, "transform")
    IN  /\ p.Name = b.keys[2]
        /\ p.Input # Nil
        /\ LowerCase(ins[1].keys[2], p.Input.Type)
        /\ p.Output # Nil
        /\ LowerCase(outs[1].keys[2], p.Output.Type)
        /\ Len(p.Transforms) = Len(trs)
        /\ \A t \in 1..Len(trs) : LowerCase(trs[t].keys[2], p.Transforms[t].Type)

\* C2: a valid configuration with N labelled process blocks of distinct
\* names decodes without error to N processes in declaration order, each with
\* the name of its block, the lower-cased labels of its input and output and
\* the lower-cased labels of its transforms in order, repeats included.
C2_ValidConfigurationDecodes ==
    (Decoded /\ ValidConfiguration) =>
        /\ err = <<>>
        /\ config # Nil
        /\ Len(config.Processes) = Len(ProcessBlocks)
        /\ \A k \in 1..Len(ProcessBlocks) :
               Decodes(config.Processes[k], ProcessBlocks[k])

\* C2, the case: two valid process blocks of distinct names, one of them
\* with the same transform type twice and an upper-case label, decoded.
C2_TwoProcessesRepeatedTransform ==
    /\ Decoded
    /\ ValidConfiguration
    /\ Len(ProcessBlocks) = 2
    /\ \E k \in 1..2 :
           LET trs == ItemsUnder(ProcessBlocks[k].val.list, "transform")
           IN  Len(trs) = 2 /\ trs[1].keys[2] = JS /\ trs[2].keys[2] = JS
    /\ Len(config.Processes) = 2

(***************************************************************************)
(* C3.                                                                     *)
(***************************************************************************)
\* no input (no output) can be decoded for the block: none is declared, or
\* none that is declared has a type label
NoneDecodable(b, key) ==
    \A i \in Under(b.val.list, key) : ~Labelled(b.val.list[i])

\* C3, as claimed: every process of a Config returned with a nil error has an
\* Input and an Output, and a process block without a decodable input or
\* output makes Parse return an error.
C3_InputAndOutputSet ==
    Decoded =>
        /\ err = <<>> =>
               \A k \in 1..Len(config.Processes) :
                   config.Processes[k].Input # Nil /\ config.Processes[k].Output # Nil
        /\ (\E k \in 1..Len(ProcessBlocks) :
                \/ NoneDecodable(ProcessBlocks[k], "input")
                \/ NoneDecodable(ProcessBlocks[k], "output")) => err # <<>>

(***************************************************************************)
(* C4.                                                                     *)
(***************************************************************************)
\* C4: once the load has reported an error the program has exited and no
\* pipeline of any process has been started.
C4_NoRunAfterLoadError ==
    err # <<>> => pc \in {"fatal", "panic"} /\ started = <<>> /\ config = Nil

\* C4, the case: the load of a file fails although one of its process
\* blocks is valid and could have been run on its own.
C4_RejectedWithValidProcess ==
    /\ pc = "fatal"
    /\ err # <<>>
    /\ Decoded
    /\ \E k \in 1..Len(ProcessBlocks) : ValidProcess(ProcessBlocks[k])
    /\ \E k \in 1..Len(ProcessBlocks) : ~ValidProcess(ProcessBlocks[k])

(***************************************************************************)
(* C5.                                                                     *)
(***************************************************************************)
NoOutput(b) == Under(b.val.list, "output") = {}

NoInput(b) == Under(b.val.list, "input") = {}

\* the decode reaches the k-th labelled process block: the root keys are
\* permitted and the blocks before it are valid, of names unused before
Reaches(k) ==
    /\ RootKeysValid
    /\ \A i \in 1..(k - 1) : ValidProcess(ProcessBlocks[i])
    /\ DistinctNames(k)

\* the block passes the key check, and its input and transform blocks decode
DecodesUpToOutput(b) ==
    /\ Unknown(b.val.list, ProcessKeys) = {}
    /\ ~NoInput(b)
    /\ \A i \in Under(b.val.list, "transform") : Labelled(b.val.list[i])

Repeats(k) ==
    \E i \in 1..(k - 1) : ProcessBlocks[i].keys[2] = ProcessBlocks[k].keys[2]

\* the number of errors with a message about a name
Count(msg, name) ==
    Cardinality({i \in 1..Len(err) : err[i].msg = msg /\ err[i].arg = name})

\* C6, as claimed: with two process blocks of one name, the decode records
\* exactly one "defined more than once" error for the name and goes on with
\* the siblings after the duplicate, whose own errors it reports.
C6_DuplicateThenSiblings ==
    (Decoded /\ rev = 2) =>
        \A k \in 1..Len(ProcessBlocks) :
            Repeats(k) =>
                /\ Count(Duplicate, ProcessBlocks[k].keys[2]) = 1
                /\ \A j \in (k + 1)..Len(ProcessBlocks) :
                       (NoInput(ProcessBlocks[j]) /\ ~Repeats(j)
                            /\ Unknown(ProcessBlocks[j].val.list, ProcessKeys) = {}) =>
                           Reported(MissingInput, ProcessBlocks[j].keys[2])

\* C6, amended: when the decode reaches the first process block that repeats
\* a name, it returns exactly one error, "defined more than once" for that
\* name, and aborts the scope: no sibling after the duplicate is decoded or
\* reported, and no model is returned.
C6_DuplicateAbortsScope ==
    Decoded =>
        \A k \in 1..Len(ProcessBlocks) :
            (Repeats(k) /\ Reaches(k - 1) /\ ValidProcess(ProcessBlocks[k - 1])) =>
                /\ Len(err) = 1
                /\ err[1].msg = Duplicate
                /\ err[1].arg = ProcessBlocks[k].keys[2]
                /\ config = Nil

\* C6, the case: a valid process, a second one of the same name, and after
\* it a sibling of another name with an error of its own (no input).
C6_DuplicateBeforeFaultySibling ==
    /\ Decoded
    /\ Len(ProcessBlocks) = 3
    /\ Reaches(1)
    /\ ValidProcess(ProcessBlocks[1])
    /\ Repeats(2)
    /\ ~Repeats(3)
    /\ NoInput(ProcessBlocks[3])
    /\ pc = "fatal"

(***************************************************************************)
(* C7.                                                                     *)
(***************************************************************************)
\* C7, as claimed: when the decode records an error, Parse still returns the
\* model: a non-nil Config holding the entries built so far.
C7_ModelReturnedWithError ==
    (Decoded /\ err # <<>>) => config # Nil

\* C7, amended: when the decode records an error, Parse returns the error
\* and a nil Config: none of the entries built before the failure is
\* returned; a Config is returned exactly when the error is nil.
C7_NoModelWithError ==
    Decoded => (err # <<>> <=> config = Nil)

\* C7, the case: the decode fails in the second process block, after the
\* entry of the first, valid one was built.
C7_FailureAfterFirstEntry ==
    /\ Decoded
    /\ Len(ProcessBlocks) >= 2
    /\ Reaches(2)
    /\ ~ValidProcess(ProcessBlocks[2])
    /\ err # <<>>

(***************************************************************************)
(* C8.                                                                     *)
(***************************************************************************)
\* the value a connection block gives a key, "" when it does not give it
AttributeOf(b, key) ==
    IF Under(b.val.list, key) = {} THEN ""
    ELSE b.val.list[Kth(Under(b.val.list, key), 1)].val.v

\* C8: a file with two unidata blocks, or two mongodb blocks, is rejected,
\* and a Config returned without error holds a connection block of a kind
\* exactly when the file declares one, with the values that block gives.
C8_OneConnectionBlockPerKind ==
    Decoded =>
        /\ \A kind \in {"unidata", "mongodb"} :
               Cardinality(Under(file.root, kind)) > 1 => err # <<>>
        /\ err = <<>> =>
               /\ config.Unidata # Nil <=> Cardinality(Under(file.root, "unidata")) = 1
               /\ \A i \in Under(file.root, "unidata") :
                      /\ config.Unidata["Host"] = AttributeOf(file.root[i], "host")
                      /\ config.Unidata["UdtBin"] = AttributeOf(file.root[i], "udtbin")
               /\ rev = 1 =>
                      /\ config.MongoDB # Nil
                             <=> Cardinality(Under(file.root, "mongodb")) = 1
                      /\ \A i \in Under(file.root, "mongodb") :
                             config.MongoDB["Server"]
                                 = AttributeOf(file.root[i], "server")

\* C8, the case: the older revision rejects a file with two mongodb blocks
\* in parseMongoDB.
C8_TwoMongoDBRejected ==
    /\ Decoded
    /\ rev = 1
    /\ Cardinality(Under(file.root, "mongodb")) = 2
    /\ Len(err) = 1
    /\ err[1].msg = "only one 'mongodb' block allowed"
    /\ pc = "fatal"

(***************************************************************************)
(* C9.                                                                     *)
(***************************************************************************)
\* C9, as claimed: a process block with more than one input block, or more
\* than one output block, makes the decode return an error.
C9_OneInputOneOutput ==
    (Decoded /\ rev = 2) =>
        \A k \in 1..Len(ProcessBlocks) :
            \/ Cardinality(Under(ProcessBlocks[k].val.list, "input")) > 1
            \/ Cardinality(Under(ProcessBlocks[k].val.list, "output")) > 1
            => err # <<>>

(***************************************************************************)
(* C10.                                                                    *)
(***************************************************************************)
\* the object nodes of the file: its root, and the body of every block
ObjectNodes ==
    {ObjectList(file.root)}
        \cup {file.root[i].val : i \in {j \in 1..Len(file.root) :
                                           file.root[j].val.type = "ObjectType"}}

\* the sets of permitted keys the decoder uses, and two more
PermittedSets ==
    {RootKeys(1), RootKeys(2), ProcessKeys, UnidataKeys(1), UnidataKeys(2),
     {"server", "database"}, {"type", "is_multi"}, {}, {"bogus"}}

\* C10, as claimed: on an object or an object list, checkHCLKeys returns one
\* error for each item whose key is not permitted, in declaration order,
\* naming the key and the line the item is written on, and nothing else; so
\* it returns nil exactly when every key is permitted.
C10_KeyValidator ==
    Decoded =>
        \A node \in ObjectNodes : \A valid \in PermittedSets :
            LET bad == Unknown(node.list, valid)
                res == checkHCLKeys(node, valid)
            IN  /\ Len(res) = Cardinality(bad)
                /\ \A k \in 1..Len(res) :
                       /\ res[k].msg = "invalid key"
                       /\ res[k].arg = node.list[Kth(bad, k)].keys[1]
                       /\ res[k].line = node.list[Kth(bad, k)].line
                /\ res = <<>>
                       <=> \A i \in 1..Len(node.list) : node.list[i].keys[1] \in valid

(***************************************************************************)
(* C11.                                                                    *)
(***************************************************************************)
\* the decoded block has the lower-cased label of the item as its Type and
\* one Config entry per attribute of the item, with the attribute's value
Verbatim(info, item) ==
    /\ info # Nil
    /\ LowerCase(item.keys[2], info.Type)
    /\ DOMAIN info.Config = {item.val.list[i].keys[1] : i \in 1..Len(item.val.list)}
    /\ \A i \in 1..Len(item.val.list) :
           info.Config[item.val.list[i].keys[1]]
               = [t |-> item.val.list[i].val.t, v |-> item.val.list[i].val.v]

\* C11: whatever attributes its input, transform and output blocks hold, a
\* file of valid processes decodes without error, each block to the
\* lower-cased label as Type and to a Config with every attribute of the
\* block and its value.
C11_BlocksDecodeVerbatim ==
    (Decoded /\ ValidConfiguration) =>
        /\ err = <<>>
        /\ Len(config.Processes) = Len(ProcessBlocks)
        /\ \A k \in 1..Len(ProcessBlocks) :
               LET body == ProcessBlocks[k].val.list
                   trs == ItemsUnder(body, "transform")
               IN  /\ Verbatim(config.Processes[k].Input, ItemsUnder(body, "input")[1])
                   /\ Verbatim(config.Processes[k].Output, ItemsUnder(body, "output")[1])
                   /\ Len(config.Processes[k].Transforms) = Len(trs)
                   /\ \A t \in 1..Len(trs) :
                          Verbatim(config.Processes[k].Transforms[t], trs[t])

\* C11, the case: a decoded process whose input, transform and output blocks
\* each hold an attribute, one of them under a key no schema knows.
C11_EveryBlockConfigured ==
    /\ Decoded
    /\ \E k \in 1..Len(ProcessBlocks) :
           LET body == ProcessBlocks[k].val.list
           IN  /\ Len(body) = 3
               /\ \A p \in 1..3 : body[p].val.list # <<>>
               /\ \E p \in 1..3 : body[p].val.list[1].keys[1] = "bogus"
    /\ config # Nil
    /\ Len(config.Processes) = Len(ProcessBlocks)

(***************************************************************************)
(* C12.                                                                    *)
(***************************************************************************)
\* C12, as claimed: a file with a process block that has no name label makes
\* the decode return an error.
C12_UnnamedProcessReported ==
    Decoded =>
        ((\E i \in Under(file.root, "process") : ~Labelled(file.root[i]))
            => err # <<>>)

(***************************************************************************)
(* C13.                                                                    *)
(***************************************************************************)
\* the field blocks of the file, and whether one gives a key a value of a type
FieldBlocks == FieldsWritten(file.root)

Gives(b, key) == Under(b.val.list, key) # {}

ValueOf(b, key) == b.val.list[Kth(Under(b.val.list, key), 1)].val

\* the field decoded from the k-th field block
DecodedField(k) == config.Processes[1].Input.Fields[k]

\* a field block with permitted keys and a non-empty string as its type
TypedField(b) ==
    /\ Unknown(b.val.list, {"type", "is_multi"}) = {}
    /\ Gives(b, "type")
    /\ ValueOf(b, "type").t = "string"
    /\ ValueOf(b, "type").v # ""

\* the fields of the file are typed and their names differ pairwise
TypedFields ==
    /\ \A k \in 1..Len(FieldBlocks) : TypedField(FieldBlocks[k])
    /\ \A i, j \in 1..Len(FieldBlocks) :
           i # j => FieldBlocks[i].keys[2] # FieldBlocks[j].keys[2]

NotBoolean(b) == Gives(b, "is_multi") /\ ValueOf(b, "is_multi").t # "bool"

\* C13, as claimed: in a file of typed fields, a field without is_multi
\* decodes to IsMulti = false, and a field whose is_multi is not a boolean
\* makes the decode return an error that names such a field; it does not
\* crash.
C13_IsMultiDefaultOrError ==
    (Decoded /\ TypedFields) =>
        /\ err = <<>> =>
               \A k \in 1..Len(FieldBlocks) :
                   ~Gives(FieldBlocks[k], "is_multi") => DecodedField(k).IsMulti = FALSE
        /\ (\E k \in 1..Len(FieldBlocks) : NotBoolean(FieldBlocks[k])) =>
               /\ pc = "fatal"
               /\ \E k \in 1..Len(FieldBlocks) :
                      NotBoolean(FieldBlocks[k]) /\ err[1].arg = FieldBlocks[k].keys[2]

(***************************************************************************)
(* C14.                                                                    *)
(***************************************************************************)
\* is_multi absent, a boolean, or the string "true" or "false"
WeakBoolField(b) ==
    Gives(b, "is_multi") => ValueOf(b, "is_multi").v \in {"true", "false"}

\* C14, as claimed: typed fields whose is_multi, when given, is a boolean or
\* a boolean-valued string decode without error, IsMulti being that boolean.
C14_BooleanStringCoerced ==
    (/\ Decoded
     /\ TypedFields
     /\ \A k \in 1..Len(FieldBlocks) : WeakBoolField(FieldBlocks[k])) =>
        /\ pc # "panic"
        /\ err = <<>>
        /\ \A k \in 1..Len(FieldBlocks) :
               DecodedField(k).IsMulti
                   = (Gives(FieldBlocks[k], "is_multi")
                          /\ ValueOf(FieldBlocks[k], "is_multi").v = "true")

(***************************************************************************)
(* C15.                                                                    *)
(***************************************************************************)
\* C15, as claimed: every field of a model decoded without error has a
\* non-empty Type, and a field block whose type is absent, empty or not a
\* string makes the decode return an error.
C15_TypeRequired ==
    Decoded =>
        /\ err = <<>> =>
               \A k \in 1..Len(FieldBlocks) : DecodedField(k).Type # ""
        /\ (\E k \in 1..Len(FieldBlocks) :
                \/ ~Gives(FieldBlocks[k], "type")
                \/ ValueOf(FieldBlocks[k], "type").t # "string"
                \/ ValueOf(FieldBlocks[k], "type").v = "")
            => (err # <<>> /\ pc = "fatal")

(***************************************************************************)
(* C17.                                                                    *)
(***************************************************************************)
\* C17, as claimed: on a Config that Parse returned with a nil error, runApp
\* never ends in a crash: what it cannot run ends in a reported fatal error.
C17_NoCrashAfterLoad ==
    (Decoded /\ err = <<>>) => pc # "panic"

(***************************************************************************)
(* C18.                                                                    *)
(***************************************************************************)
\* the pipelines started are those of the first processes, in declaration
\* order; all but the one at idx have finished without error
RunOrder ==
    (pc # "edit" /\ config # Nil) =>
        /\ Len(started) <= Len(config.Processes)
        /\ \A i \in 1..Len(started) : started[i] = config.Processes[i].Name
        /\ pc = "pipeline" => Len(started) = idx
        /\ pc \in {"run", "done"} => Len(started) = idx - 1
        /\ pc \in {"fatal", "panic"} => Len(started) \in {idx - 1, idx}
        /\ pc = "done" => Len(started) = Len(config.Processes)

\* a pipeline is started for the process at idx only; the program moves to
\* the next process only when that pipeline finished without error; after a
\* failure nothing happens any more
RunStep ==
    /\ started' # started =>
           /\ pc = "run"
           /\ pc' = "pipeline"
           /\ started' = Append(started, config.Processes[idx].Name)
    /\ (pc # "edit" /\ idx' # idx) =>
           /\ pc = "pipeline"
           /\ pc' = "run"
           /\ idx' = idx + 1
    /\ pc \in {"fatal", "panic", "done"} => UNCHANGED vars

\* C18: runApp handles the processes one at a time in declaration order: a
\* pipeline is started only after the pipelines of all earlier processes
\* finished without error, and once initialising or running a process fails
\* the program has ended and no later process is started.
C18_OneAtATimeInOrder == []RunOrder /\ [][RunStep]_vars

\* C18, the case: of three processes the first has run to completion, the
\* second has failed, and the third is never started.
C18_SecondOfThreeFails ==
    /\ config # Nil
    /\ Len(config.Processes) = 3
    /\ pc = "fatal"
    /\ idx = 2
    /\ started # <<>>
    /\ started[1] = "a"

====
